---- MODULE Spec2Model ----
(***************************************************************************)
(* A model of spindrift's packager (lib/spindrift/packager.py): the walk   *)
(* of the installed-package index (find_dependencies), the per-dependency  *)
(* chain of installation strategies (install_dependencies), the local     *)
(* unpacker (install_local_package, install_local_package_from_egg), and   *)
(* the assembly of the staging tree into an archive (populate_directory,   *)
(* output_archive).  One behaviour of Spec is a sequence of package()      *)
(* calls that share the private wheel cache and the destination path.      *)
(* SpecAssembly runs the steps from compile_files to create_zip_bundle on  *)
(* every tree over a set of paths, SpecLocal runs install_local_package on *)
(* every install location, and SpecRace interleaves the statements of two  *)
(* concurrent downloads of one wheel.                                      *)
(***************************************************************************)
EXTENDS Integers, Sequences, FiniteSets, Bags, TLC

\* ------------------------------------------------------------------ bounds

\* Depth of the interpreter's call stack available to find_dependencies
\* (CPython raises RecursionError beyond it).
RecursionLimit == 4

\* Number of package() calls in one behaviour.
MaxRuns == 2

\* ------------------------------------------------------- the environment

Names == {"app", "liba", "libb"}

\* Every installed distribution of the model carries this version.
DepVersion(n) == "1.0"

\* The installed-package indexes the model starts from: for each installed
\* key the keys of its requirements, in declaration order.  "ghost" is a
\* requirement that is not installed.
IndexAlone == [n \in {"app"} |-> <<>>]

IndexChain ==
    [n \in Names |-> CASE n = "app" -> <<"liba">>
                       [] n = "liba" -> <<"libb">>
                       [] OTHER -> <<>>]

IndexDiamond ==
    [n \in Names |-> CASE n = "app" -> <<"liba", "libb">>
                       [] n = "liba" -> <<"libb">>
                       [] OTHER -> <<>>]

IndexSelfCycle ==
    [n \in {"app", "liba"} |-> CASE n = "app" -> <<"liba">>
                                 [] OTHER -> <<"liba">>]

IndexCycle ==
    [n \in Names |-> CASE n = "app" -> <<"liba">>
                       [] n = "liba" -> <<"libb">>
                       [] OTHER -> <<"liba">>]

IndexMissing ==
    [n \in {"app", "liba"} |-> CASE n = "app" -> <<"liba">>
                                 [] OTHER -> <<"ghost">>]

Indexes ==
    {IndexAlone, IndexChain, IndexDiamond, IndexSelfCycle, IndexCycle,
     IndexMissing}

\* ------------------------------------------------------------ sequences

Range(s) == {s[i] : i \in 1..Len(s)}

\* Every duplicate-free sequence that lists exactly the elements of S.
Orderings(S) ==
    {s \in [1..Cardinality(S) -> S] : Range(s) = S}

\* ---------------------------------------------------------------- paths

\* A file path: the directory components, and the file name split at its
\* last dot (ext holds the dot).  "liba/__pycache__/mod.cpython-36.pyc" is
\* File(<<"liba", "__pycache__">>, "mod.cpython-36", ".pyc").
File(dir, base, ext) == [dir |-> dir, base |-> base, ext |-> ext]

FileName(p) == p.base \o p.ext

\* The components of the "/"-joined path.
Components(p) == p.dir \o <<FileName(p)>>

\* name.endswith(".py")
EndsWithPy(p) == p.ext = ".py"

\* name + "c"
PlusC(p) == [p EXCEPT !.ext = p.ext \o "c"]

\* os.path.join(folder, name) for a relative name.
Under(folder, p) == [p EXCEPT !.dir = <<folder>> \o p.dir]

\* name.startswith(folder + "/")
StartsWithFolder(p, folder) == Len(p.dir) >= 1 /\ p.dir[1] = folder

\* A path as the caller writes it: the sequence of its names and of the
\* separators between them, so "/tmp/d" is <<"/", "tmp", "/", "d">>.
Sep == "/"

\* No directory.
NoPath == <<>>

\* What tempfile.TemporaryDirectory() names the directory it made.
TempPath == <<Sep, "tmp", Sep, "tmpdir">>

\* A tree of files: a function from paths to file contents.
EmptyTree == [p \in {} |-> ""]

\* Writing the files of `new` into `tree`; a file already there is replaced.
WriteFiles(tree, new) ==
    [p \in DOMAIN tree \cup DOMAIN new |->
        IF p \in DOMAIN new THEN new[p] ELSE tree[p]]

RemoveFiles(tree, gone) == [p \in DOMAIN tree \ gone |-> tree[p]]

\* ------------------------------------------------------- ignore patterns

\* A glob of IGNORED: the name, with "*/" before it (lead) and "/*" after
\* it (trail).
Glob(lead, name, trail) == [lead |-> lead, name |-> name, trail |-> trail]

IGNORED ==
    << Glob(FALSE, "__pycache__", FALSE),
       Glob(FALSE, ".git", FALSE),
       Glob(FALSE, "__pycache__", TRUE),
       Glob(FALSE, ".git", TRUE),
       Glob(TRUE, "__pycache__", TRUE),
       Glob(TRUE, ".git", TRUE) >>

\* fnmatch.fnmatch(name, pattern) on the "/"-joined path: the whole string
\* must match, and "*" matches any run of characters, "/" included.
Fnmatch(p, pat) ==
    LET c == Components(p) IN
    CASE ~pat.lead /\ ~pat.trail -> Len(c) = 1 /\ c[1] = pat.name
      [] ~pat.lead /\ pat.trail -> Len(c) >= 2 /\ c[1] = pat.name
      [] pat.lead /\ pat.trail ->
            \E i \in 2..(Len(c) - 1) : c[i] = pat.name
      [] OTHER -> Len(c) >= 2 /\ c[Len(c)] = pat.name

\* The egg path's filter: the member name matches some glob of IGNORED.
MatchesIgnored(p) == \E i \in 1..Len(IGNORED) : Fnmatch(p, IGNORED[i])

\* shutil.ignore_patterns(*IGNORED) as copytree applies it: in every
\* directory it visits, an entry whose own name matches a glob is skipped,
\* so a path below the copied folder is dropped when one of its components
\* matches.  A glob holding "/" matches no entry name.
IgnoredName(name) ==
    \E i \in 1..Len(IGNORED) :
        ~IGNORED[i].lead /\ ~IGNORED[i].trail /\ IGNORED[i].name = name

CopytreeSkips(rel) ==
    \E i \in 1..Len(Components(rel)) : IgnoredName(Components(rel)[i])

\* ------------------------------------------------------------- artifacts

TreeOf(paths, data) == [p \in paths |-> data]

\* The members of the portable-binary wheel published for a distribution.
\* liba's wheel was built with a stray bytecode-cache directory in it;
\* the others bring a top-level module index.py.
WheelMembers(n) ==
    IF n = "liba"
    THEN TreeOf({File(<<n>>, "__init__", ".py"),
                 File(<<n, "__pycache__">>, "__init__.cpython-36", ".pyc")},
                "wheel:" \o n)
    ELSE TreeOf({File(<<n>>, "__init__", ".py"),
                 File(<<n>>, "native", ".so"),
                 File(<<>>, "index", ".py")},
                "wheel:" \o n)

\* The members of the bundled store's tar archive for a distribution.
StoreMembers(n) ==
    TreeOf({File(<<n>>, "__init__", ".py"), File(<<n>>, "native", ".so")},
           "store:" \o n)

\* The top-level name of the single-file module a distribution brings
\* along (the file is that name + ".py").
SingleModule(n) == n \o "_one"

\* The top-level name of a package that several distributions put modules
\* into.
Shared == "ns"

\* The files below the install location of a distribution installed as a
\* directory (the ownership manifest apart).
LocalDirFiles(n) ==
    TreeOf({File(<<n>>, "__init__", ".py"),
            File(<<n>>, "data", ".txt"),
            File(<<n, "__pycache__">>, "__init__.cpython-36", ".pyc"),
            File(<<n, "sub", ".git">>, "config", ".ini"),
            File(<<>>, SingleModule(n), ".py"),
            File(<<Shared>>, n, ".py")},
           "local:" \o n)

\* The lines of the distribution's top_level.txt.
TopLevelLines(n) == <<n, "">>

EggManifest == File(<<"EGG-INFO">>, "top_level", ".txt")

\* zf.namelist() of the distribution's egg, with each member's contents.
EggMembers(n) ==
    TreeOf({EggManifest,
            File(<<n>>, "__init__", ".py"),
            File(<<n>>, "__init__", ".pyc"),
            File(<<n>>, "mod", ".py"),
            File(<<n, "__pycache__">>, "mod.cpython-36", ".pyc")},
           "egg:" \o n)

\* dependency.egg_name()
EggName(n) == n \o "-" \o DepVersion(n) \o "-py3.6"

\* The folders _locate_top_level looks into for a top_level.txt, named
\* relative to dependency.location.
EggInfo == "EGG-INFO"

KeyEggInfo(n) == n \o ".egg-info"

EmbeddedEggInfo(n) == EggName(n) \o ".egg/EGG-INFO"

DistInfo(n) == n \o "-" \o DepVersion(n) \o ".dist-info"

\* The lines of the top_level.txt found in a folder: the embedded bundle's
\* lists the shared package too, the .dist-info one the single-file module.
ManifestLines(n, folder) ==
    CASE folder = EmbeddedEggInfo(n) -> <<n, Shared>>
      [] folder = DistInfo(n) -> <<n, "", SingleModule(n)>>
      [] OTHER -> TopLevelLines(n)

\* What dependency.location is: a file, a directory or neither; whether
\* its name ends with ".egg"; whether the file {egg_name}.egg lies in it;
\* and which of the folders hold a top_level.txt.
Location(kind, dotEgg, eggZip, manifests) ==
    [kind |-> kind, dotEgg |-> dotEgg, eggZip |-> eggZip,
     manifests |-> manifests]

\* install_local_package has not been called.
NoLocation == Location("unset", FALSE, FALSE, {})

\* How a distribution may be found installed.
Layouts(n) ==
    { Location("file", TRUE, FALSE, {}),
      Location("file", FALSE, FALSE, {}),
      Location("none", FALSE, FALSE, {}) }
    \cup { Location("dir", FALSE, FALSE, m) :
               m \in SUBSET {KeyEggInfo(n), EmbeddedEggInfo(n), DistInfo(n)} }
    \cup { Location("dir", FALSE, TRUE, m) : m \in {{}, {KeyEggInfo(n)}} }
    \cup { Location("dir", TRUE, FALSE, m) :
               m \in {{}, {EggInfo}, {KeyEggInfo(n)}} }

\* The ones the package() calls of the model meet.
CommonLayouts(n) ==
    { Location("file", TRUE, FALSE, {}),
      Location("file", FALSE, FALSE, {}),
      Location("none", FALSE, FALSE, {}),
      Location("dir", FALSE, FALSE, {}),
      Location("dir", FALSE, FALSE, {KeyEggInfo(n)}),
      Location("dir", FALSE, TRUE, {}) }

\* ---------------------------------------------------- the local unpacker

\* The manifest's lines, stripped, blank ones dropped.
ReadTopLevel(lines) == SelectSeq(lines, LAMBDA l : l # "")

\* names_to_copy for one folder of an egg.
EggNamesToCopy(members, folder) ==
    LET maybe == {m \in DOMAIN members : StartsWithFolder(m, folder)} IN
    {m \in maybe :
        /\ ~MatchesIgnored(m)
        /\ (~EndsWithPy(m) \/ PlusC(m) \notin maybe)}

\* zf.extractall(os.path.join(path, folder), names_to_copy): each member is
\* written at its own name below the destination.
EggExtractFolder(tree, members, folder) ==
    LET names == EggNamesToCopy(members, folder) IN
    WriteFiles(tree,
               [q \in {Under(folder, m) : m \in names} |->
                    members[CHOOSE m \in names : Under(folder, m) = q]])

RECURSIVE EggExtractFolders(_, _, _)
EggExtractFolders(tree, members, folders) ==
    IF folders = <<>> THEN tree
    ELSE EggExtractFolders(EggExtractFolder(tree, members, Head(folders)),
                           members, Tail(folders))

\* install_local_package_from_egg on an egg file.
InstallLocalPackageFromEgg(tree, n) ==
    IF EggManifest \notin DOMAIN EggMembers(n)
    THEN [result |-> "KeyError", tree |-> tree]
    ELSE [result |-> "installed",
          tree |-> EggExtractFolders(tree, EggMembers(n),
                                     ReadTopLevel(TopLevelLines(n)))]

\* The path of a file of the source folder, relative to that folder.
Below(p) == [p EXCEPT !.dir = Tail(p.dir)]

\* shutil.copytree(source, destination, ignore=...) for one folder.
CopytreeFiles(files, folder) ==
    LET kept == {p \in DOMAIN files :
                    StartsWithFolder(p, folder) /\ ~CopytreeSkips(Below(p))}
    IN [p \in kept |-> files[p]]

SourceIsDir(files, folder) ==
    \E p \in DOMAIN files : StartsWithFolder(p, folder)

SourceIsFile(files, folder) ==
    \E p \in DOMAIN files : p.dir = <<>> /\ FileName(p) = folder

DestinationExists(tree, folder) ==
    \E p \in DOMAIN tree :
        StartsWithFolder(p, folder) \/ (p.dir = <<>> /\ FileName(p) = folder)

\* The loop over to_copy; copytree raises when the source is no directory
\* or when the destination exists already.
RECURSIVE CopyFolders(_, _, _)
CopyFolders(tree, files, folders) ==
    IF folders = <<>> THEN [result |-> "installed", tree |-> tree]
    ELSE LET folder == Head(folders) IN
         IF SourceIsFile(files, folder) /\ ~SourceIsDir(files, folder)
         THEN [result |-> "NotADirectoryError", tree |-> tree]
         ELSE IF ~SourceIsDir(files, folder)
         THEN [result |-> "FileNotFoundError", tree |-> tree]
         ELSE IF DestinationExists(tree, folder)
         THEN [result |-> "FileExistsError", tree |-> tree]
         ELSE CopyFolders(WriteFiles(tree, CopytreeFiles(files, folder)),
                          files, Tail(folders))

\* paths_to_try of _locate_top_level
PathsToTry(n, location) ==
    IF location.dotEgg THEN <<EggInfo>>
    ELSE <<KeyEggInfo(n), EmbeddedEggInfo(n), DistInfo(n)>>

\* _locate_top_level: the first folder of paths_to_try that holds a
\* top_level.txt, "None" if none does.
LocateTopLevel(n, location) ==
    LET tries == PathsToTry(n, location)
        hits == {i \in 1..Len(tries) : tries[i] \in location.manifests}
    IN IF hits = {} THEN "None"
       ELSE tries[CHOOSE i \in hits : \A j \in hits : i <= j]

\* install_local_package: the staging tree afterwards, and "installed"
\* (it returned True) or the error it raised.
InstallLocalPackage(tree, n, location) ==
    IF location.kind = "file"
    THEN IF location.dotEgg
         THEN InstallLocalPackageFromEgg(tree, n)
         ELSE [result |-> "UnsupportedLocalLayout", tree |-> tree]
    ELSE IF location.kind = "dir"
    THEN IF location.eggZip
         THEN \* install_local_package_from_egg opens dependency.location,
              \* the directory, as a zip file
              [result |-> "IsADirectoryError", tree |-> tree]
         ELSE IF LocateTopLevel(n, location) = "None"
         THEN [result |-> "OwnershipManifestMissing", tree |-> tree]
         ELSE CopyFolders(tree, LocalDirFiles(n),
                          ReadTopLevel(ManifestLines(
                              n, LocateTopLevel(n, location))))
    ELSE [result |-> "UnsupportedLocalLayout", tree |-> tree]

\* ------------------------------------------------------ the bundled store

RUNTIME == "python3.6"

\* lambda_packages.get(name): no record, or the runtimes it was built for
\* and the version it holds.
NoRecord == [present |-> FALSE, runtimes |-> {}, version |-> ""]

StoreRecords ==
    {NoRecord}
    \cup [present : {TRUE}, runtimes : {{"python2.7"}}, version : {"1.0"}]
    \cup [present : {TRUE}, runtimes : {{"python2.7", "python3.6"}},
          version : {"1.0", "2.0"}]

\* tf.members(): TarFile.members is a list, and calling it raises.
TarMembers(n) == [result |-> "TypeError", members |-> EmptyTree]

\* _install_precompiled_version: "installed" (True), "notfound" (False) or
\* the error raised, and the staging tree afterwards.
InstallPrecompiledVersion(tree, n, record, check_version) ==
    IF ~record.present THEN [result |-> "notfound", tree |-> tree]
    ELSE IF RUNTIME \notin record.runtimes
    THEN [result |-> "KeyError", tree |-> tree]
    ELSE IF check_version /\ record.version # DepVersion(n)
    THEN [result |-> "notfound", tree |-> tree]
    ELSE LET tf == TarMembers(n) IN
         IF tf.result # "ok" THEN [result |-> tf.result, tree |-> tree]
         ELSE [result |-> "installed", tree |-> WriteFiles(tree, tf.members)]

InstallMatchingPrecompiledVersion(tree, n, record) ==
    InstallPrecompiledVersion(tree, n, record, TRUE)

InstallAnyPrecompiledVersion(tree, n, record) ==
    InstallPrecompiledVersion(tree, n, record, FALSE)

\* ------------------------------------------------------------ wheel caches

\* _get_wheel_suffix(RUNTIME)
WheelSuffix ==
    IF RUNTIME = "python2.7" THEN "cp27mu-manylinux1_x86_64.whl"
    ELSE "cp36m-manylinux1_x86_64.whl"

WheelName(n) == n \o "-" \o DepVersion(n) \o "-" \o WheelSuffix

\* What a file of the private cache holds.
CacheStates == {"absent", "empty", "partial", "complete"}

\* _install_manylinux_version_from_cache on one cache directory: isdir says
\* whether the directory exists, wheels maps the wheel names found in it to
\* what each file holds.
InstallManylinuxVersionFromCache(isdir, wheels, tree, n) ==
    IF ~isdir THEN [result |-> "notfound", tree |-> tree]
    ELSE IF WheelName(n) \notin DOMAIN wheels
    THEN [result |-> "notfound", tree |-> tree]
    ELSE IF wheels[WheelName(n)] # "complete"
    THEN [result |-> "BadZipFile", tree |-> tree]
    ELSE [result |-> "installed", tree |-> WriteFiles(tree, WheelMembers(n))]

\* load_cached_wheels on the private cache: the files that are there.
LoadCachedWheels(cache) ==
    [w \in {WheelName(n) : n \in {m \in DOMAIN cache : cache[m] # "absent"}} |->
        cache[CHOOSE n \in DOMAIN cache : WheelName(n) = w]]

\* What ~/.cache/pip may look like to a run that asks it for n's wheel.
PipCaches(n) ==
    { [isdir |-> FALSE, wheels |-> << >>],
      [isdir |-> TRUE, wheels |-> << >>],
      [isdir |-> TRUE, wheels |-> [w \in {WheelName(n)} |-> "complete"]] }

\* A variant that asks pip's cache only.
InstallManylinuxVersionPipOnly(pip, fdir, cache, tree, n) ==
    InstallManylinuxVersionFromCache(pip.isdir, pip.wheels, tree, n)

\* install_manylinux_version: pip's cache first, the private cache second.
InstallManylinuxVersion(pip, fdir, cache, tree, n) ==
    LET rv == InstallManylinuxVersionFromCache(pip.isdir, pip.wheels, tree, n) IN
    IF rv.result = "notfound"
    THEN InstallManylinuxVersionFromCache(fdir, LoadCachedWheels(cache), tree, n)
    ELSE rv

\* ------------------------------------------------------------ the registry

\* A URL of the registry, split where the platform tag would start.
Url(stem, tail) == [stem |-> stem, tail |-> tail]

NoUrl == Url("", "")

SdistUrl(n, v) == Url(n \o "-" \o v, ".tar.gz")

WheelUrl(n, v) == Url(n \o "-" \o v \o "-cp36-", WheelSuffix)

\* info["url"].endswith(wheel_suffix)
EndsWithWheelSuffix(url) == url.tail = WheelSuffix

\* A response to GET /pypi/{name}/json: the status, and for every release
\* listed the URLs of its artifacts, in the order listed.
Responses(n) ==
    { [status |-> 404, releases |-> << >>],
      [status |-> 200, releases |-> [v \in {"0.9"} |-> <<SdistUrl(n, v)>>]],
      [status |-> 200,
       releases |-> [v \in {"0.9", "1.0"} |-> <<SdistUrl(n, v)>>]],
      [status |-> 200,
       releases |-> [v \in {"0.9", "1.0"} |->
                        <<SdistUrl(n, v), WheelUrl(n, v)>>]] }

\* res.raise_for_status()
RaisesForStatus(status) == status >= 400 /\ status < 600

\* The first URL of the release that ends with the wheel suffix, NoUrl
\* (None) if there is none.
FindWheelUrl(infos) ==
    LET hits == {i \in 1..Len(infos) : EndsWithWheelSuffix(infos[i])} IN
    IF hits = {} THEN NoUrl
    ELSE infos[CHOOSE i \in hits : \A j \in hits : i <= j]

\* How the artifact download ends: the status of the response and whether
\* the body arrives whole.
Downloads ==
    { [status |-> 200, whole |-> TRUE],
      [status |-> 200, whole |-> FALSE],
      [status |-> 503, whole |-> FALSE] }

\* A variant that takes a failed metadata request for a miss and lets the
\* chain go on.
DownloadSwallowingStatus(tree, cache, n, res, dl) ==
    IF RaisesForStatus(res.status)
    THEN [result |-> "notfound", tree |-> tree, cache |-> cache]
    ELSE IF DepVersion(n) \notin DOMAIN res.releases
    THEN [result |-> "notfound", tree |-> tree, cache |-> cache]
    ELSE IF FindWheelUrl(res.releases[DepVersion(n)]) = NoUrl
    THEN [result |-> "notfound", tree |-> tree, cache |-> cache]
    ELSE IF RaisesForStatus(dl.status)
    THEN [result |-> "RegistryError", tree |-> tree,
          cache |-> [cache EXCEPT ![n] = "empty"]]
    ELSE IF ~dl.whole
    THEN [result |-> "ConnectionError", tree |-> tree,
          cache |-> [cache EXCEPT ![n] = "partial"]]
    ELSE [result |-> "installed",
          tree |-> WriteFiles(tree, WheelMembers(n)),
          cache |-> [cache EXCEPT ![n] = "complete"]]

\* download_and_install_manylinux_version: the result, the staging tree and
\* the private cache afterwards.
DownloadAndInstallManylinuxVersion(tree, cache, n, res, dl) ==
    IF RaisesForStatus(res.status)
    THEN [result |-> "RegistryError", tree |-> tree, cache |-> cache]
    ELSE IF DepVersion(n) \notin DOMAIN res.releases
    THEN [result |-> "notfound", tree |-> tree, cache |-> cache]
    ELSE IF FindWheelUrl(res.releases[DepVersion(n)]) = NoUrl
    THEN [result |-> "notfound", tree |-> tree, cache |-> cache]
    ELSE IF RaisesForStatus(dl.status)
    THEN [result |-> "RegistryError", tree |-> tree,
          cache |-> [cache EXCEPT ![n] = "empty"]]
    ELSE IF ~dl.whole
    THEN [result |-> "ConnectionError", tree |-> tree,
          cache |-> [cache EXCEPT ![n] = "partial"]]
    ELSE [result |-> "installed",
          tree |-> WriteFiles(tree, WheelMembers(n)),
          cache |-> [cache EXCEPT ![n] = "complete"]]

\* ------------------------------------------------------------- assembly

\* importlib.util.cache_from_source, where compileall writes the bytecode.
CacheFromSource(p) ==
    File(p.dir \o <<"__pycache__">>, p.base \o ".cpython-36", ".pyc")

InPycache(p) == \E i \in 1..Len(p.dir) : p.dir[i] = "__pycache__"

\* The files compileall.compile_dir compiles: it does not descend into
\* __pycache__ directories.
Sources(tree) == {p \in DOMAIN tree : EndsWithPy(p) /\ ~InPycache(p)}

\* compile_files: every source outside `broken` (the files that do not
\* compile, which are skipped) gets its bytecode file.
CompileFiles(tree, broken) ==
    WriteFiles(tree,
               TreeOf({CacheFromSource(p) : p \in Sources(tree) \ broken},
                      "bytecode"))

\* A variant that removes the __pycache__ directories and unlinks nothing.
PruneKeepingSources(tree) ==
    RemoveFiles(tree, {p \in DOMAIN tree : InPycache(p)})

\* prune_python_files: the __pycache__ directories are removed, then every
\* .py file collected by the walk whose name + "c" exists is unlinked.
PrunePythonFiles(tree) ==
    LET py_files == {p \in DOMAIN tree : EndsWithPy(p)}
        swept == RemoveFiles(tree, {p \in DOMAIN tree : InPycache(p)})
    IN RemoveFiles(swept, {p \in py_files : PlusC(p) \in DOMAIN swept})

ShimPath == File(<<>>, "index", ".py")

\* the text the caller passes as the entry point
EntryText == "entry"

\* A variant that leaves a file found at the shim's path as it is.
InsertShimUnlessThere(tree, entry) ==
    WriteFiles([p \in {ShimPath} |-> entry], tree)

\* insert_shim
InsertShim(tree, entry) == WriteFiles(tree, [p \in {ShimPath} |-> entry])

\* os.path.join(root, name) for a relative name.
JoinPath(root, name) ==
    IF root # <<>> /\ root[Len(root)] = Sep THEN root \o <<name>>
    ELSE root \o <<Sep, name>>

\* The root os.walk(path) reports for the directory `dirs` below path.
RECURSIVE WalkRoot(_, _)
WalkRoot(path, dirs) ==
    IF dirs = <<>> THEN path
    ELSE WalkRoot(JoinPath(path, Head(dirs)), Tail(dirs))

\* real_file_path = os.path.join(root, file)
RealFilePath(path, p) == JoinPath(WalkRoot(path, p.dir), FileName(p))

\* real_file_path[len(path):]
Truncated(real, path) == SubSeq(real, Len(path) + 1, Len(real))

\* truncated.lstrip(os.sep)
RECURSIVE Lstrip(_)
Lstrip(name) ==
    IF name # <<>> /\ Head(name) = Sep THEN Lstrip(Tail(name)) ELSE name

\* An entry of a zip file: zipfile.ZipInfo(filename) and the data written.
Entry(filename, data) == [filename |-> filename, data |-> data]

\* A zip file is modelled by the bag of its entries: how many entries it
\* holds of each filename and data.  The order of the entries in the file
\* is the order in which os.walk reports the files, which is the order
\* os.scandir lists each directory in; the file system decides it, and the
\* bag leaves it open.
\* A zip file without entries.
NoArchive == EmptyBag

\* The bag of the entries written for the files of a tree, one for each
\* file (os.walk reports every file below the directory once), each under
\* the filename given for it.
EntriesOf(tree, filename) ==
    [e \in {Entry(filename[p], tree[p]) : p \in DOMAIN tree} |->
        Cardinality({p \in DOMAIN tree : Entry(filename[p], tree[p]) = e})]

\* A variant that names each entry by what is left of the file's path
\* after the directory's, separators included.
CreateZipBundleNoStrip(tree, path) ==
    EntriesOf(tree, [p \in DOMAIN tree |->
                        Truncated(RealFilePath(path, p), path)])

\* create_zip_bundle: for every file of the walk an entry named by the
\* file's path with the directory's path cut off its front and the leading
\* separators stripped.
CreateZipBundle(tree, path) ==
    EntriesOf(tree, [p \in DOMAIN tree |->
                        Lstrip(Truncated(RealFilePath(path, p), path))])

\* The destinations a caller may name.
Destinations == {"out.zip", "s3://bucket/out.zip"}

\* destination.startswith("s3://")
StartsWithS3(d) == d = "s3://bucket/out.zip"

NoFile == [written |-> FALSE, entries |-> NoArchive]

\* ---------------------------------------------------------------- state

VARIABLES
    index,          \* the installed-package index
    runs,           \* package() calls made so far
    pc,             \* where the current package() call stands
    error,          \* the error the current call ended with
    stack,          \* the frames of find_dependencies
    dependencies,   \* what find_dependencies returned
    depIdx,         \* the loop position of install_dependencies
    cur,            \* the dependency the loop is at
    log,            \* the strategies tried for cur, with their results
    store,          \* the bundled store's record for cur
    staging,        \* the temporary directory's files
    fakeDir,        \* whether the private cache directory exists
    fakeCache,      \* what the private cache holds for each wheel
    requested,      \* the names the registry was asked about in this call
    acquired,       \* the names handed to the strategies in this call
    unpacked,       \* the names handed to install_local_package, in order
    archive,        \* the temporary zip file
    dest,           \* the file at the local destination path
    root,           \* the package name the current call was given
    response,       \* the registry's answer to the metadata request for cur
    wrote,          \* whether the current call wrote the destination
    layout,         \* how install_local_package found its distribution
    tempPath,       \* the temporary directory's path, NoPath when there is none
    step,           \* of each concurrent run: where its download stands
    wheel,          \* the private cache's file the concurrent runs write
    offset,         \* of each concurrent run: the position of its file handle
    outcome,        \* of each concurrent run: how its download ended
    ownTree,        \* of each concurrent run: its own temporary directory
    zf,             \* of each concurrent run: where its extractall stands
    preprune        \* the files prune_python_files found, while the tree lives

vars ==
    <<index, runs, pc, error, stack, dependencies, depIdx, cur, log, store,
      staging, fakeDir, fakeCache, requested, acquired, unpacked, archive,
      dest, root, response, wrote, layout, tempPath, preprune,
      step, wheel, offset, outcome, ownTree, zf>>

\* The state of the runs that download concurrently.
raceVars == <<step, wheel, offset, outcome, ownTree, zf>>

\* The state of the package() call that runs alone, the private cache
\* directory apart.
callVars ==
    <<index, runs, pc, error, stack, dependencies, depIdx, cur, log, store,
      staging, fakeCache, requested, acquired, unpacked, archive, dest, root,
      response, wrote, layout, tempPath, preprune>>

\* The runs that download concurrently.
Runners == {1, 2}

\* The cache file: whether it exists, and the chunks it holds.
NoWheel == [exists |-> FALSE, chunks |-> <<>>]

\* No zip file is open: no member is being extracted.
NoZipFile == [member |-> 0, read |-> 0, zeros |-> FALSE, collected |-> FALSE]

\* The handle of a zip file that is about to read its k-th member.
AtMember(k) == [member |-> k, read |-> 1, zeros |-> FALSE, collected |-> FALSE]

NoRace ==
    /\ step = [r \in Runners |-> "idle"]
    /\ wheel = NoWheel
    /\ offset = [r \in Runners |-> 0]
    /\ outcome = [r \in Runners |-> ""]
    /\ ownTree = [r \in Runners |-> EmptyTree]
    /\ zf = [r \in Runners |-> NoZipFile]

NoResponse == [status |-> 0, releases |-> << >>]

NoError == [kind |-> "none", name |-> ""]

Frame(n) == [name |-> n, next |-> 1, ret |-> <<n>>]

Init ==
    /\ index \in Indexes
    /\ runs = 0
    /\ pc = "idle"
    /\ error = NoError
    /\ stack = <<>>
    /\ dependencies = <<>>
    /\ depIdx = 1
    /\ cur = ""
    /\ log = <<>>
    /\ store = NoRecord
    /\ staging = EmptyTree
    /\ fakeDir = FALSE
    /\ fakeCache = [n \in Names |-> "absent"]
    /\ requested = {}
    /\ acquired = {}
    /\ unpacked = <<>>
    /\ archive = NoArchive
    /\ dest = NoFile
    /\ root = ""
    /\ response = NoResponse
    /\ wrote = FALSE
    /\ layout = NoLocation
    /\ tempPath = NoPath
    /\ preprune = EmptyTree
    /\ NoRace

\* A variant in which an exception leaves the temporary directory behind.
RaiseLeavingTree(kind, name) ==
    /\ pc' = "failed"
    /\ error' = [kind |-> kind, name |-> name]
    /\ archive' = NoArchive
    /\ UNCHANGED <<staging, tempPath>>

\* An exception leaves package(): the temporary directory and the temporary
\* zip file are removed on the way out.
Raise(kind, name) ==
    /\ pc' = "failed"
    /\ error' = [kind |-> kind, name |-> name]
    /\ staging' = EmptyTree
    /\ archive' = NoArchive
    /\ tempPath' = NoPath

\* ------------------------------------------------------ find_dependencies

\* The names a caller may package.
Roots == {"app", "liba"}

\* package(): a call starts with find_dependencies(package), which looks
\* the name up in the index first.
Package ==
    /\ pc \in {"idle", "done", "failed"}
    /\ runs < MaxRuns
    /\ runs' = runs + 1
    /\ \E r \in Roots :
         /\ root' = r
         /\ IF r \in DOMAIN index
            THEN /\ pc' = "find"
                 /\ error' = NoError
                 /\ stack' = <<Frame(r)>>
            ELSE /\ pc' = "failed"
                 /\ error' = [kind |-> "UnresolvedDependency", name |-> r]
                 /\ stack' = <<>>
    /\ dependencies' = <<>>
    /\ depIdx' = 1
    /\ cur' = ""
    /\ log' = <<>>
    /\ store' = NoRecord
    /\ response' = NoResponse
    /\ staging' = EmptyTree
    /\ requested' = {}
    /\ acquired' = {}
    /\ unpacked' = <<>>
    /\ archive' = NoArchive
    /\ wrote' = FALSE
    /\ layout' = NoLocation
    /\ tempPath' = NoPath
    /\ preprune' = EmptyTree
    /\ UNCHANGED <<raceVars, index, fakeDir, fakeCache, dest>>

Top == stack[Len(stack)]

NextRequirement == index[Top.name][Top.next]

\* list(set(ret)): the distinct elements, in an order the hashes decide.
ListOfSet(ret) == Orderings(Range(ret))

\* The loop reaches a requirement: find_dependencies(requirement.key).
FindRecurse ==
    /\ pc = "find"
    /\ Top.next <= Len(index[Top.name])
    /\ NextRequirement \in DOMAIN index
    /\ Len(stack) < RecursionLimit
    /\ stack' = Append(stack, Frame(NextRequirement))
    /\ UNCHANGED <<tempPath, preprune, raceVars, index, runs, pc, error, dependencies, depIdx, cur, log,
                   store, staging, fakeDir, fakeCache, requested, acquired,
                   unpacked, archive, dest, root,
                   response, wrote, layout>>

\* working_set.by_key[package_name] of a key that is not installed.
FindKeyError ==
    /\ pc = "find"
    /\ Top.next <= Len(index[Top.name])
    /\ NextRequirement \notin DOMAIN index
    /\ Raise("UnresolvedDependency", NextRequirement)
    /\ stack' = <<>>
    /\ UNCHANGED <<preprune, raceVars, index, runs, dependencies, depIdx, cur, log, store,
                   fakeDir, fakeCache, requested, acquired, unpacked, dest, root,
                   response, wrote, layout>>

\* The call stack is exhausted.
FindRecursionError ==
    /\ pc = "find"
    /\ Top.next <= Len(index[Top.name])
    /\ NextRequirement \in DOMAIN index
    /\ Len(stack) >= RecursionLimit
    /\ Raise("RecursionError", NextRequirement)
    /\ stack' = <<>>
    /\ UNCHANGED <<preprune, raceVars, index, runs, dependencies, depIdx, cur, log, store,
                   fakeDir, fakeCache, requested, acquired, unpacked, dest, root,
                   response, wrote, layout>>

\* The loop is over: return list(set(ret)), which the caller extends its
\* own ret with; the outermost call hands it to package().
FindReturn ==
    /\ pc = "find"
    /\ Top.next > Len(index[Top.name])
    /\ \E lst \in ListOfSet(Top.ret) :
         IF Len(stack) = 1
         THEN /\ dependencies' = lst
              /\ stack' = <<>>
              /\ pc' = "deps"
              /\ tempPath' = TempPath
         ELSE /\ stack' =
                   [SubSeq(stack, 1, Len(stack) - 1) EXCEPT
                      ![Len(stack) - 1] =
                          [@ EXCEPT !.ret = @ \o lst, !.next = @ + 1]]
              /\ UNCHANGED <<dependencies, pc, tempPath>>
    /\ UNCHANGED <<preprune, raceVars, index, runs, error, depIdx, cur, log, store, staging,
                   fakeDir, fakeCache, requested, acquired, unpacked, archive,
                   dest, root,
                   response, wrote, layout>>

\* --------------------------------------------------- install_dependencies

AtDependency == pc = "deps" /\ depIdx <= Len(dependencies)

\* A variant of the loop that does not stop at the first strategy that
\* succeeds.
AttemptedWithoutContinue(k, n, out) ==
    /\ log' = Append(log, [strategy |-> k, result |-> out.result])
    /\ IF out.result \in {"installed", "notfound"}
       THEN IF k < 5
            THEN /\ pc' = <<"s1", "s2", "s3", "s4", "s5">>[k + 1]
                 /\ staging' = out.tree
                 /\ UNCHANGED <<error, archive, tempPath>>
            ELSE /\ pc' = "deps"
                 /\ staging' = out.tree
                 /\ UNCHANGED <<error, archive, tempPath>>
       ELSE Raise(out.result, n)

\* What the loop does with the value a strategy returned (out.result is
\* "installed" for True, "notfound" for False, the error's name when the
\* strategy raised): on True it continues with the next dependency, on
\* False it goes on to the next strategy, and after install_local_package
\* returned False it raises.
Attempted(k, n, out) ==
    /\ log' = Append(log, [strategy |-> k, result |-> out.result])
    /\ IF out.result = "installed"
       THEN /\ pc' = "deps"
            /\ staging' = out.tree
            /\ UNCHANGED <<error, archive, tempPath>>
       ELSE IF out.result = "notfound"
       THEN IF k < 5
            THEN /\ pc' = <<"s1", "s2", "s3", "s4", "s5">>[k + 1]
                 /\ staging' = out.tree
                 /\ UNCHANGED <<error, archive, tempPath>>
            ELSE Raise("NoSuitableArtifact", n)
       ELSE Raise(out.result, n)

\* A variant of the test that never recognises the project itself.
IsOwnCodeNever(n) == FALSE

\* dependency.key == package
IsOwnCode(n) == n = root

\* "if dependency.key == package: continue"
SkipRoot ==
    /\ AtDependency
    /\ IsOwnCode(dependencies[depIdx])
    /\ depIdx' = depIdx + 1
    /\ UNCHANGED <<tempPath, preprune, raceVars, index, runs, pc, error, stack, dependencies, cur, log,
                   store, staging, fakeDir, fakeCache, requested, acquired,
                   unpacked, archive, dest, root,
                   response, wrote, layout>>

\* Strategy 1, install_matching_precompiled_version, which opens the chain
\* for the next dependency of the list.
TryMatchingPrecompiled ==
    /\ AtDependency
    /\ ~IsOwnCode(dependencies[depIdx])
    /\ LET n == dependencies[depIdx] IN
       \E record \in StoreRecords :
         /\ cur' = n
         /\ depIdx' = depIdx + 1
         /\ store' = record
         /\ response' = NoResponse
         /\ layout' = NoLocation
         /\ acquired' = acquired \cup {n}
         /\ log' = <<[strategy |-> 1,
                      result |-> InstallMatchingPrecompiledVersion(
                                     staging, n, record).result]>>
         /\ LET out == InstallMatchingPrecompiledVersion(staging, n, record)
            IN IF out.result = "installed"
               THEN /\ pc' = "deps"
                    /\ staging' = out.tree
                    /\ UNCHANGED <<error, archive, tempPath>>
               ELSE IF out.result = "notfound"
               THEN /\ pc' = "s2"
                    /\ staging' = out.tree
                    /\ UNCHANGED <<error, archive, tempPath>>
               ELSE Raise(out.result, n)
    /\ UNCHANGED <<preprune, raceVars, index, runs, stack, dependencies, fakeDir, fakeCache,
                   requested, unpacked, dest, root, wrote>>

\* Strategy 2, install_manylinux_version.
TryManylinux ==
    /\ pc = "s2"
    /\ \E pip \in PipCaches(cur) :
         Attempted(2, cur,
                   InstallManylinuxVersion(pip, fakeDir, fakeCache, staging, cur))
    /\ UNCHANGED <<preprune, raceVars, index, runs, stack, dependencies, depIdx, cur, store,
                   fakeDir, fakeCache, requested, acquired, unpacked, dest, root,
                   response, wrote, layout>>

\* Strategy 3, download_and_install_manylinux_version.
TryDownload ==
    /\ pc = "s3"
    /\ fakeDir' = TRUE
    /\ requested' = requested \cup {cur}
    /\ \E res \in Responses(cur), dl \in Downloads :
         LET out == DownloadAndInstallManylinuxVersion(
                        staging, fakeCache, cur, res, dl)
         IN /\ response' = res
            /\ fakeCache' = out.cache
            /\ Attempted(3, cur, out)
    /\ UNCHANGED <<preprune, raceVars, index, runs, stack, dependencies, depIdx, cur, store,
                   acquired, unpacked, dest, root, wrote, layout>>

\* Strategy 4, install_any_precompiled_version.
TryAnyPrecompiled ==
    /\ pc = "s4"
    /\ Attempted(4, cur, InstallAnyPrecompiledVersion(staging, cur, store))
    /\ UNCHANGED <<preprune, raceVars, index, runs, stack, dependencies, depIdx, cur, store,
                   fakeDir, fakeCache, requested, acquired, unpacked, dest, root,
                   response, wrote, layout>>

\* Strategy 5, install_local_package, the distribution being found in one
\* of `layouts`.
TryLocalPackageAmong(layouts) ==
    /\ pc = "s5"
    /\ unpacked' = Append(unpacked, cur)
    /\ \E found \in layouts :
         /\ layout' = found
         /\ Attempted(5, cur, InstallLocalPackage(staging, cur, found))
    /\ UNCHANGED <<preprune, raceVars, index, runs, stack, dependencies, depIdx, cur, store,
                   fakeDir, fakeCache, requested, acquired, dest, root,
                   response, wrote>>

TryLocalPackage == TryLocalPackageAmong(CommonLayouts(cur))

\* ----------------------------------------------------- populate_directory

\* A variant that installs the project and goes on to compile while the
\* loop of install_dependencies has dependencies left.
InstallProjectEarly ==
    /\ pc = "deps"
    /\ unpacked' = Append(unpacked, root)
    /\ \E found \in CommonLayouts(root) :
         LET out == InstallLocalPackage(staging, root, found) IN
         /\ layout' = found
         /\ IF out.result = "installed"
            THEN /\ pc' = "compile"
                 /\ staging' = out.tree
                 /\ UNCHANGED <<error, archive, tempPath>>
            ELSE Raise(out.result, root)
    /\ UNCHANGED <<preprune, raceVars, index, runs, stack, dependencies, depIdx, cur, log, store,
                   fakeDir, fakeCache, requested, acquired, dest, root,
                   response, wrote>>

\* The loop of install_dependencies is over: install_project, the project
\* being found in one of `layouts`.
InstallProjectAmong(layouts) ==
    /\ pc = "deps"
    /\ depIdx > Len(dependencies)
    /\ unpacked' = Append(unpacked, root)
    /\ \E found \in layouts :
         LET out == InstallLocalPackage(staging, root, found) IN
         /\ layout' = found
         /\ IF out.result = "installed"
            THEN /\ pc' = "compile"
                 /\ staging' = out.tree
                 /\ UNCHANGED <<error, archive, tempPath>>
            ELSE Raise(out.result, root)
    /\ UNCHANGED <<preprune, raceVars, index, runs, stack, dependencies, depIdx, cur, log, store,
                   fakeDir, fakeCache, requested, acquired, dest, root,
                   response, wrote>>

InstallProject == InstallProjectAmong(CommonLayouts(root))

\* compile_files; a file that does not compile is skipped.
Compile ==
    /\ pc = "compile"
    /\ \E broken \in {{}} \cup {{p} : p \in Sources(staging)} :
         staging' = CompileFiles(staging, broken)
    /\ pc' = "prune"
    /\ UNCHANGED <<tempPath, preprune, raceVars, index, runs, error, stack, dependencies, depIdx, cur, log,
                   store, fakeDir, fakeCache, requested, acquired, unpacked,
                   archive, dest, root,
                   response, wrote, layout>>

\* prune_python_files
Prune ==
    /\ pc = "prune"
    /\ staging' = PrunePythonFiles(staging)
    /\ preprune' = staging
    /\ pc' = "shim"
    /\ UNCHANGED <<tempPath, raceVars, index, runs, error, stack, dependencies, depIdx, cur, log,
                   store, fakeDir, fakeCache, requested, acquired, unpacked,
                   archive, dest, root,
                   response, wrote, layout>>

\* insert_shim
Shim ==
    /\ pc = "shim"
    /\ staging' = InsertShim(staging, EntryText)
    /\ pc' = "zip"
    /\ UNCHANGED <<tempPath, preprune, raceVars, index, runs, error, stack, dependencies, depIdx, cur, log,
                   store, fakeDir, fakeCache, requested, acquired, unpacked,
                   archive, dest, root,
                   response, wrote, layout>>

\* --------------------------------------------------------- output_archive

\* create_zip_bundle into the temporary file
Zip ==
    /\ pc = "zip"
    /\ archive' = CreateZipBundle(staging, tempPath)
    /\ pc' = "output"
    /\ UNCHANGED <<tempPath, preprune, raceVars, index, runs, error, stack, dependencies, depIdx, cur, log,
                   store, staging, fakeDir, fakeCache, requested, acquired,
                   unpacked, dest, root,
                   response, wrote, layout>>

\* output_zip_bundle, and the way out of both with-blocks.
Output ==
    /\ pc = "output"
    /\ \E destination \in Destinations :
         IF StartsWithS3(destination)
         THEN /\ Raise("TypeError", destination)
              /\ UNCHANGED <<dest, wrote>>
         ELSE /\ dest' = [written |-> TRUE, entries |-> archive]
              /\ wrote' = TRUE
              /\ pc' = "done"
              /\ staging' = EmptyTree
              /\ archive' = NoArchive
              /\ tempPath' = NoPath
              /\ UNCHANGED error
    /\ preprune' = EmptyTree
    /\ UNCHANGED <<raceVars, index, runs, stack, dependencies, depIdx, cur, log, store,
                   fakeDir, fakeCache, requested, acquired, unpacked, root, response, layout>>

Next ==
    \/ Package
    \/ FindRecurse
    \/ FindKeyError
    \/ FindRecursionError
    \/ FindReturn
    \/ SkipRoot
    \/ TryMatchingPrecompiled
    \/ TryManylinux
    \/ TryDownload
    \/ TryAnyPrecompiled
    \/ TryLocalPackage
    \/ InstallProject
    \/ Compile
    \/ Prune
    \/ Shim
    \/ Zip
    \/ Output

Spec == Init /\ [][Next]_vars

\* ------------------------------------------- assembly of an arbitrary tree

\* The files a directory handed to populate_directory's later steps may
\* hold: sources with and without a name + "c" sibling, data at the root
\* and two directories down, a __pycache__ directory holding bytecode and a
\* source, and a file at the shim's path.
AssemblyPaths ==
    { File(<<>>, "a", ".py"),
      File(<<>>, "a", ".pyc"),
      File(<<>>, "b", ".txt"),
      File(<<>>, "index", ".py"),
      File(<<"pkg">>, "m", ".py"),
      File(<<"pkg">>, "m", ".pyc"),
      File(<<"pkg", "sub">>, "d", ".dat"),
      File(<<"pkg", "__pycache__">>, "m.cpython-36", ".pyc"),
      File(<<"pkg", "__pycache__">>, "x", ".py") }

\* Each file holds its own text.
AssemblyTrees ==
    { [p \in S |-> "staged:" \o FileName(p)] : S \in SUBSET AssemblyPaths }

\* The directory as a caller of these functions may write it: with or
\* without a trailing separator.
StagingPaths == {TempPath, TempPath \o <<Sep>>}

\* compile_files, prune_python_files, insert_shim and create_zip_bundle
\* called on a directory that holds any of these trees.
InitAssembly ==
    /\ index = IndexAlone
    /\ runs = 1
    /\ pc \in {"compile", "prune"}
    /\ error = NoError
    /\ stack = <<>>
    /\ dependencies = <<"app">>
    /\ depIdx = 2
    /\ cur = ""
    /\ log = <<>>
    /\ store = NoRecord
    /\ staging \in AssemblyTrees
    /\ fakeDir = FALSE
    /\ fakeCache = [n \in Names |-> "absent"]
    /\ requested = {}
    /\ acquired = {}
    /\ unpacked = <<"app">>
    /\ archive = NoArchive
    /\ dest = NoFile
    /\ root = "app"
    /\ response = NoResponse
    /\ wrote = FALSE
    /\ layout = Location("dir", FALSE, FALSE, {KeyEggInfo("app")})
    /\ tempPath \in StagingPaths
    /\ preprune = EmptyTree
    /\ NoRace

NextAssembly ==
    \/ Compile
    \/ Prune
    \/ Shim
    \/ Zip

SpecAssembly == InitAssembly /\ [][NextAssembly]_vars

\* ------------------------------------- strategy 5 on any install location

\* What the dependency handled before cur may have left in the staging
\* tree: its wheel's members, its egg's, or the folders its top_level.txt
\* lists.
PreStaged(m) ==
    { WheelMembers(m),
      InstallLocalPackage(EmptyTree, m, Location("file", TRUE, FALSE, {})).tree,
      InstallLocalPackage(EmptyTree, m,
          Location("dir", FALSE, FALSE, {KeyEggInfo(m)})).tree,
      InstallLocalPackage(EmptyTree, m,
          Location("dir", FALSE, FALSE, {EmbeddedEggInfo(m)})).tree }

\* The registry's answer that lists no release of cur's version.
NotListed(n) ==
    [status |-> 200, releases |-> [v \in {"0.9"} |-> <<SdistUrl(n, v)>>]]

\* A call of package("app", ...) whose loop has skipped the project, has
\* installed one dependency, and for the next and last one has had
\* not-found from strategies 1 to 4.  The registry has been asked about
\* cur, and about the first dependency as well when it was unpacked from
\* its install location.
InitLocal ==
    /\ index = IndexDiamond
    /\ runs = 1
    /\ pc = "s5"
    /\ error = NoError
    /\ stack = <<>>
    /\ \E m \in {"liba", "libb"} :
         /\ cur \in {"liba", "libb"} \ {m}
         /\ dependencies = <<"app", m, cur>>
         /\ acquired = {m, cur}
         /\ staging \in PreStaged(m)
         /\ unpacked = IF staging = WheelMembers(m) THEN <<>> ELSE <<m>>
         \* strategy 5 is reached only past the registry request of
         \* the download strategy
         /\ requested = IF staging = WheelMembers(m) THEN {cur} ELSE {m, cur}
    /\ depIdx = 4
    /\ log = [k \in 1..4 |-> [strategy |-> k, result |-> "notfound"]]
    /\ store = NoRecord
    /\ fakeDir = TRUE
    /\ fakeCache = [n \in Names |-> "absent"]
    /\ archive = NoArchive
    /\ dest = NoFile
    /\ root = "app"
    /\ response = NotListed(cur)
    /\ wrote = FALSE
    /\ layout = NoLocation
    /\ tempPath = TempPath
    /\ preprune = EmptyTree
    /\ NoRace

TryAnyLocalPackage == TryLocalPackageAmong(Layouts(cur))

InstallAnyProject == InstallProjectAmong(Layouts(root))

NextLocal ==
    \/ TryAnyLocalPackage
    \/ InstallAnyProject

SpecLocal == InitLocal /\ [][NextLocal]_vars

\* ------------------------------------------- two runs downloading at once

\* Two package() calls in two processes have both come to strategy 3 for
\* the same dependency, whose wheel neither cache holds.  Each executes
\* download_and_install_manylinux_version statement by statement; the
\* registry answers both, lists the wheel and serves it whole.

\* The number of writes the artifact reaches the file in (the buffered
\* file flushes at its own pace and on close).
NChunks == 3

\* The dependency both runs are at.
Contested == "liba"

\* The artifact's bytes: its i-th chunk holds i.  A chunk of 0 is the zero
\* bytes of a hole.
Artifact == [i \in 1..NChunks |-> i]

\* A write of chunk c at position `at` of the file (counted in chunks from
\* 0): it replaces what is there, and a file shorter than that is extended,
\* the gap reading as zeros.
WriteAt(chunks, at, c) ==
    LET n == IF Len(chunks) > at THEN Len(chunks) ELSE at + 1 IN
    [i \in 1..n |-> IF i = at + 1 THEN c
                    ELSE IF i <= Len(chunks) THEN chunks[i] ELSE 0]

\* The wheel's members in the order of its central directory.
MemberOrder ==
    <<File(<<Contested>>, "__init__", ".py"),
      File(<<Contested, "__pycache__">>, "__init__.cpython-36", ".pyc")>>

\* Where the artifact's bytes lie, and how extractall comes by them.  The
\* first chunk holds the first member and the local header of the second;
\* the second member's data fills the chunks after it, and the central
\* directory and the end record close the last chunk.  The zip file's
\* handle reads through a buffer: the read for the first member brings the
\* whole first chunk into it, so the second member's header is served from
\* the buffer, whatever the file holds by then, and only its data is read
\* from the file, chunk after chunk.
\* The chunks read from the file for the k-th member, in order.
Reads(k) == IF k = 1 THEN <<1>> ELSE [i \in 1..(NChunks - 1) |-> i + 1]

\* Whether the k-th member's local header is read from the file.
HeaderFromFile(k) == k = 1

DirectoryChunk == NChunks

\* Whether the file holds the artifact's c-th chunk at its place.
Holds(chunks, c) == c <= Len(chunks) /\ chunks[c] = c

\* zipfile.ZipFile(wheel_path) reads the end record and the central
\* directory off the end of the file as it is now; a file that does not
\* end with them is no zip file.
ZipFileOpens(file) ==
    Len(file.chunks) = NChunks /\ Holds(file.chunks, DirectoryChunk)

\* What one read of zf.extractall(path) from the file as it is now can come
\* to, with what extractall does before and after it without reading.
\* Before a member's first read its local header is checked (BadZipFile
\* when the file ends before it or holds other bytes there) and the target
\* file is created empty.  The member's data is asked of the buffered file
\* in one call, which reads the file chunk after chunk and collects what
\* it gets.  A read that finds the file ended returns nothing: when the
\* call has collected nothing, that is an EOFError; when it has, the call
\* returns short, what it collected is decompressed, and the next call
\* reads at the same place again.  The members are deflated, as a wheel's
\* are.  Zeros read in place of a member's data either stop the
\* decompressor (zlib.error) when they reach it, or decompress to other
\* bytes, which fail the CRC check after the member's last read
\* (BadZipFile); which of them depends on the artifact's bytes.  Every
\* failure leaves the target file empty.  Whether the call for the next
\* member starts with bytes collected depends on the artifact too: on
\* whether the member's data begins in the chunk that holds its header,
\* which the buffer has.
ReadMember(chunks, handle, tree) ==
    LET k == handle.member
        p == MemberOrder[k]
        c == Reads(k)[handle.read]
        created == WriteFiles(tree, [q \in {p} |-> ""])
        zeros == handle.zeros \/ ~Holds(chunks, c)
        Fails(e, t) == [result |-> e, tree |-> t, handle |-> NoZipFile]
        GoesOn(h) == [result |-> "", tree |-> created, handle |-> h]
    IN IF HeaderFromFile(k) /\ handle.read = 1 /\ ~Holds(chunks, c)
       THEN {Fails("BadZipFile", tree)}
       ELSE IF c > Len(chunks) /\ ~handle.collected
       THEN {Fails("EOFError", created)}
       ELSE IF c > Len(chunks)
       THEN {GoesOn([handle EXCEPT !.collected = FALSE])}
            \cup (IF handle.zeros THEN {Fails("zlib.error", created)}
                  ELSE {})
       ELSE IF handle.read < Len(Reads(k))
       THEN {GoesOn([handle EXCEPT !.read = @ + 1, !.zeros = zeros,
                                   !.collected = TRUE])}
       ELSE IF zeros
       THEN {Fails("zlib.error", created), Fails("BadZipFile", created)}
       ELSE {[result |-> IF k = Len(MemberOrder) THEN "installed" ELSE "",
              tree |-> WriteFiles(tree,
                           [q \in {p} |-> WheelMembers(Contested)[p]]),
              handle |-> h] :
             h \in IF k = Len(MemberOrder) THEN {NoZipFile}
                   ELSE {[AtMember(k + 1) EXCEPT !.collected = b] :
                            b \in BOOLEAN}}

\* if not os.path.exists(fake_cache_path):
PathExists(r) ==
    /\ step[r] = "exists"
    /\ step' = [step EXCEPT ![r] = IF fakeDir THEN "metadata" ELSE "makedirs"]
    /\ UNCHANGED <<callVars, fakeDir, wheel, offset, outcome, ownTree, zf>>

\* os.makedirs(fake_cache_path), which raises when the directory exists.
Makedirs(r) ==
    /\ step[r] = "makedirs"
    /\ IF fakeDir
       THEN /\ step' = [step EXCEPT ![r] = "failed"]
            /\ outcome' = [outcome EXCEPT ![r] = "FileExistsError"]
            /\ UNCHANGED fakeDir
       ELSE /\ step' = [step EXCEPT ![r] = "metadata"]
            /\ fakeDir' = TRUE
            /\ UNCHANGED outcome
    /\ UNCHANGED <<callVars, wheel, offset, ownTree, zf>>

\* The metadata request, and the search for the wheel's URL in the answer.
GetMetadata(r) ==
    /\ step[r] = "metadata"
    /\ step' = [step EXCEPT ![r] = "open"]
    /\ UNCHANGED <<callVars, fakeDir, wheel, offset, outcome, ownTree, zf>>

\* open(wheel_path, "wb"): the file is created or truncated, and the
\* handle stands at its start.
OpenWheel(r) ==
    /\ step[r] = "open"
    /\ wheel' = [exists |-> TRUE, chunks |-> <<>>]
    /\ offset' = [offset EXCEPT ![r] = 0]
    /\ step' = [step EXCEPT ![r] = "get"]
    /\ UNCHANGED <<callVars, fakeDir, outcome, ownTree, zf>>

\* requests.get(url, stream=True) and raise_for_status()
GetWheel(r) ==
    /\ step[r] = "get"
    /\ step' = [step EXCEPT ![r] = "write"]
    /\ UNCHANGED <<callVars, fakeDir, wheel, offset, outcome, ownTree, zf>>

\* fp.write(chunk) reaching the file; after the last one the with-block
\* closes the handle.
WriteChunk(r) ==
    /\ step[r] = "write"
    /\ wheel' = [wheel EXCEPT
                    !.chunks = WriteAt(@, offset[r], Artifact[offset[r] + 1])]
    /\ offset' = [offset EXCEPT ![r] = @ + 1]
    /\ step' = [step EXCEPT
                   ![r] = IF offset[r] + 1 = NChunks THEN "extract" ELSE "write"]
    /\ UNCHANGED <<callVars, fakeDir, outcome, ownTree, zf>>

\* with zipfile.ZipFile(wheel_path) as zf:
OpenZipFile(r) ==
    /\ step[r] = "extract"
    /\ IF ZipFileOpens(wheel)
       THEN /\ step' = [step EXCEPT ![r] = "extractall"]
            /\ zf' = [zf EXCEPT ![r] = AtMember(1)]
            /\ UNCHANGED outcome
       ELSE /\ step' = [step EXCEPT ![r] = "failed"]
            /\ outcome' = [outcome EXCEPT ![r] = "BadZipFile"]
            /\ UNCHANGED zf
    /\ UNCHANGED <<callVars, fakeDir, wheel, offset, ownTree>>

\* zf.extractall(path), read by read: each read sees the file as it is by
\* then, whatever it held when the directory was read.
ExtractWheel(r) ==
    /\ step[r] = "extractall"
    /\ \E read \in ReadMember(wheel.chunks, zf[r], ownTree[r]) :
         /\ ownTree' = [ownTree EXCEPT ![r] = read.tree]
         /\ zf' = [zf EXCEPT ![r] = read.handle]
         /\ IF read.result = ""
            THEN UNCHANGED <<step, outcome>>
            ELSE /\ outcome' = [outcome EXCEPT ![r] = read.result]
                 /\ step' = [step EXCEPT
                                ![r] = IF read.result = "installed"
                                       THEN "done" ELSE "failed"]
    /\ UNCHANGED <<callVars, fakeDir, wheel, offset>>

InitRace ==
    /\ index = IndexChain
    /\ runs = 0
    /\ pc = "idle"
    /\ error = NoError
    /\ stack = <<>>
    /\ dependencies = <<>>
    /\ depIdx = 1
    /\ cur = ""
    /\ log = <<>>
    /\ store = NoRecord
    /\ staging = EmptyTree
    /\ fakeDir \in BOOLEAN
    /\ fakeCache = [n \in Names |-> "absent"]
    /\ requested = {}
    /\ acquired = {}
    /\ unpacked = <<>>
    /\ archive = NoArchive
    /\ dest = NoFile
    /\ root = ""
    /\ response = NoResponse
    /\ wrote = FALSE
    /\ layout = NoLocation
    /\ tempPath = NoPath
    /\ preprune = EmptyTree
    /\ step = [r \in Runners |-> "exists"]
    /\ wheel = NoWheel
    /\ offset = [r \in Runners |-> 0]
    /\ outcome = [r \in Runners |-> ""]
    /\ ownTree = [r \in Runners |-> EmptyTree]
    /\ zf = [r \in Runners |-> NoZipFile]

NextRace ==
    \E r \in Runners :
        \/ PathExists(r)
        \/ Makedirs(r)
        \/ GetMetadata(r)
        \/ OpenWheel(r)
        \/ GetWheel(r)
        \/ WriteChunk(r)
        \/ OpenZipFile(r)
        \/ ExtractWheel(r)

SpecRace == InitRace /\ [][NextRace]_vars

\* ------------------------------------------------------ the requirement graph

\* The installed requirements of an installed distribution.
Requires(n) == IF n \in DOMAIN index THEN Range(index[n]) \cap DOMAIN index ELSE {}

RECURSIVE Closure(_)
Closure(S) ==
    LET T == S \cup UNION {Requires(n) : n \in S} IN
    IF T = S THEN S ELSE Closure(T)

\* The distributions reachable from the root through declared requirements.
ReachableFromRoot == Closure({root})

\* A requirement cycle is reachable from the root.
Cyclic == \E n \in ReachableFromRoot : n \in Closure(Requires(n))

\* The root and every requirement declared below it are installed.
AllPresent ==
    /\ root \in DOMAIN index
    /\ \A n \in ReachableFromRoot : Range(index[n]) \subseteq DOMAIN index

\* find_dependencies has come to an end in the current call, and returned.
FindEnded == pc \notin {"idle", "find"}

FindReturned ==
    FindEnded /\ error.kind \notin {"UnresolvedDependency", "RecursionError"}

Count(s, x) == Cardinality({i \in 1..Len(s) : s[i] = x})

\* ------------------------------------------------------------------ claims

\* C1: on every index whose requirement graph below the root holds a cycle
\* (a distribution that requires itself included), find_dependencies comes
\* to an end by returning; it does not run until the call stack is used up.
C1_CyclicResolveTerminates ==
    (Cyclic /\ FindEnded) => error.kind # "RecursionError"

\* C2: on every index in which all declared requirements are present,
\* find_dependencies returns exactly the distributions reachable from the
\* root, the root included, each listed once.
C2_ResolveReturnsReachableSet ==
    (AllPresent /\ FindEnded) =>
        /\ FindReturned
        /\ Range(dependencies) = ReachableFromRoot
        /\ Len(dependencies) = Cardinality(ReachableFromRoot)

\* C3: for every dependency other than the root the strategies are tried in
\* the order 1..5: strategy k is tried only after strategies 1..k-1 each
\* returned not-found, and nothing is tried after a strategy succeeded.
C3_StrategiesInOrder ==
    /\ cur # "" => cur # root
    /\ Len(log) <= 5
    /\ \A i \in 1..Len(log) :
         /\ log[i].strategy = i
         /\ i < Len(log) => log[i].result = "notfound"
    /\ pc \in {"s2", "s3", "s4", "s5"} =>
         /\ log # <<>>
         /\ log[Len(log)].result = "notfound"
         /\ pc = <<"s1", "s2", "s3", "s4", "s5">>[Len(log) + 1]

\* All five strategies were tried for a dependency and the last succeeded.
C3_Witness == Len(log) = 5 /\ log[5].result = "installed"

\* The bundled store holds cur for the target runtime.
StoreHolds == store.present /\ RUNTIME \in store.runtimes

\* C4: a dependency the bundled store holds at the dependency's own version
\* is installed by strategy 1, and the registry is not asked about it.
C4_ExactMatchInstallsFromStore ==
    (Len(log) >= 1 /\ StoreHolds /\ store.version = DepVersion(cur)) =>
        /\ log = <<[strategy |-> 1, result |-> "installed"]>>
        /\ cur \notin requested

\* install_local_package finds neither an egg nor a directory with a
\* top_level.txt.
NothingToInstall(n, location) ==
    \/ location.kind = "none"
    \/ location.kind = "file" /\ ~location.dotEgg
    \/ /\ location.kind = "dir"
       /\ ~location.eggZip
       /\ LocateTopLevel(n, location) = "None"

\* C5: when the store and both caches do not hold the dependency, the
\* registry does not list its version, and install_local_package finds no
\* layout it can install, the call fails with the no-suitable-source error
\* that names the dependency, strategy 5 having been tried.
C5_ExhaustedChainRaisesNoSuitableArtifact ==
    ( /\ pc = "failed"
      /\ Len(log) = 5
      /\ \A i \in 1..4 : log[i].result = "notfound"
      /\ ~store.present
      /\ response.status = 200
      /\ DepVersion(cur) \notin DOMAIN response.releases
      /\ unpacked[Len(unpacked)] = cur
      /\ NothingToInstall(cur, layout) ) =>
        error = [kind |-> "NoSuitableArtifact", name |-> cur]

\* The metadata request for cur was answered with an error status.
MetadataFailed == Len(log) >= 3 /\ RaisesForStatus(response.status)

\* The metadata request succeeded but offers no wheel for cur's version.
NotOffered ==
    /\ Len(log) >= 3
    /\ ~RaisesForStatus(response.status)
    /\ \/ DepVersion(cur) \notin DOMAIN response.releases
       \/ FindWheelUrl(response.releases[DepVersion(cur)]) = NoUrl

\* C6: an error status on the metadata request of strategy 3 ends the call
\* with the registry error: strategies 4 and 5 are not tried, no further
\* dependency is handed to the chain and no archive is written; a response
\* that lacks the version or a matching wheel is a not-found, after which
\* strategy 4 is tried.
C6_RegistryFailureIsFatal ==
    /\ [](MetadataFailed =>
            /\ pc = "failed"
            /\ error = [kind |-> "RegistryError", name |-> cur]
            /\ Len(log) = 3
            /\ archive = NoArchive
            /\ ~wrote)
    /\ [][MetadataFailed => (pc' = pc \/ runs' = runs + 1)]_vars
    /\ [](NotOffered =>
            /\ log[3].result = "notfound"
            /\ Len(log) = 3 => pc = "s4"
            /\ Len(log) >= 4 => log[4].strategy = 4)

\* The metadata request failed and the call is over.
C6_Witness == MetadataFailed /\ pc = "failed" /\ acquired # {}

\* C7: when strategies 1 to 3 returned not-found and the store holds the
\* dependency at another version, strategy 4 installs it from the store and
\* strategy 5 is not tried.
C7_AnyVersionInstallsFromStore ==
    (Len(log) >= 4 /\ StoreHolds /\ store.version # DepVersion(cur)) =>
        /\ Len(log) = 4
        /\ log[4].result = "installed"

\* C8: the root is never handed to strategies 1 to 4 and never asked of the
\* registry, and install_local_package unpacks it once: at most once at any
\* time, and exactly once, as the last unpack, when the dependencies are
\* done, whatever the store and the caches hold under its name.
C8_RootOnlyUnpackedLocally ==
    /\ root \notin acquired
    /\ root \notin requested
    /\ cur # root \/ cur = ""
    /\ Count(unpacked, root) <= 1
    /\ pc \in {"compile", "prune", "shim", "zip", "output", "done"} =>
         /\ Count(unpacked, root) = 1
         /\ unpacked[Len(unpacked)] = root
    /\ pc = "compile" =>
         \E p \in DOMAIN staging :
             staging[p] \in {"local:" \o root, "egg:" \o root}

\* The root was unpacked locally while the private cache holds its wheel.
C8_Witness ==
    /\ pc = "compile"
    /\ fakeCache[root] = "complete"
    /\ dependencies # <<root>>

\* C9: unpacking an egg whose manifest lists pkg and whose members are
\* pkg/__init__.py, pkg/__init__.pyc and pkg/mod.py (and a bytecode-cache
\* member) leaves exactly pkg/__init__.pyc and pkg/mod.py, at those paths
\* below the staging directory.
C9_EggMembersStagedAtTheirPaths ==
    \A n \in Names :
        LET got == {p \in DOMAIN staging : staging[p] = "egg:" \o n} IN
        got = {} \/ got = {File(<<n>>, "__init__", ".pyc"),
                           File(<<n>>, "mod", ".py")}

\* C10: after every copy or extraction into the staging directory, no file
\* of it matches a pattern of IGNORED.
C10_NoIgnoredFileStaged ==
    pc \in {"deps", "s1", "s2", "s3", "s4", "s5", "compile"} =>
        \A p \in DOMAIN staging : ~MatchesIgnored(p)

\* prune_python_files has returned and nothing touched the tree since.
Pruned == pc = "shim"

\* p + "c" was there when pruning began.
HadSibling(p) == PlusC(p) \in DOMAIN preprune

\* The file is in the tree still, with the contents it had.
Kept(p) == p \in DOMAIN staging /\ staging[p] = preprune[p]

\* C11 as stated: after pruning, every source that had a name + "c" sibling
\* is absent and the sibling is present, every source without one is
\* present, every other file outside a __pycache__ directory is present and
\* unchanged, and no __pycache__ directory remains.
C11_PruneAsStated ==
    Pruned =>
        /\ \A p \in DOMAIN preprune :
              /\ (EndsWithPy(p) /\ HadSibling(p)) =>
                    p \notin DOMAIN staging /\ Kept(PlusC(p))
              /\ (EndsWithPy(p) /\ ~HadSibling(p)) => Kept(p)
              /\ (~EndsWithPy(p) /\ ~InPycache(p)) => Kept(p)
        /\ \A p \in DOMAIN staging : ~InPycache(p)

\* C11, amended: the same, for the sources outside the __pycache__
\* directories; a source inside one goes with the directory, whether or not
\* it has a sibling, and so does the sibling.
C11_PruneOutsideCaches ==
    Pruned =>
        /\ \A p \in DOMAIN preprune :
              /\ (EndsWithPy(p) /\ ~InPycache(p) /\ HadSibling(p)) =>
                    p \notin DOMAIN staging /\ Kept(PlusC(p))
              /\ (EndsWithPy(p) /\ ~InPycache(p) /\ ~HadSibling(p)) => Kept(p)
              /\ (~EndsWithPy(p) /\ ~InPycache(p)) => Kept(p)
        /\ \A p \in DOMAIN staging : ~InPycache(p)

\* Pruning met a source with a sibling, a source without one, a data file
\* and a __pycache__ directory, and unlinked the first.
C11_Witness ==
    /\ Pruned
    /\ \E p \in DOMAIN preprune :
          EndsWithPy(p) /\ ~InPycache(p) /\ HadSibling(p)
          /\ p \notin DOMAIN staging
    /\ \E p \in DOMAIN preprune :
          EndsWithPy(p) /\ ~InPycache(p) /\ ~HadSibling(p)
    /\ \E p \in DOMAIN preprune : ~EndsWithPy(p) /\ ~InPycache(p)
    /\ \E p \in DOMAIN preprune : InPycache(p)

\* The names between the separators of an entry's filename.
NameComponents(filename) == SelectSeq(filename, LAMBDA t : t # Sep)

\* An entry that stands for a directory: its filename ends with "/".
IsDirEntry(e) == e.filename # <<>> /\ e.filename[Len(e.filename)] = Sep

\* The entries of an archive that extractall would write at the path with
\* these components.
EntriesAt(entries, c) ==
    {e \in BagToSet(entries) : ~IsDirEntry(e) /\ NameComponents(e.filename) = c}

\* ZipFile.extractall of an archive that holds no two entries for one path:
\* every entry that is no directory is written at its filename below the
\* target.
ExtractAll(entries) ==
    [c \in {NameComponents(e.filename) :
                e \in {x \in BagToSet(entries) : ~IsDirEntry(x)}} |->
        (CHOOSE e \in EntriesAt(entries, c) : TRUE).data]

\* C12: extracting the archive create_zip_bundle wrote gives exactly the
\* files of the staging tree, each at its path relative to the tree's root
\* and with its contents; the archive has one entry per file, no two for
\* one path, none for a directory and none whose filename begins with a
\* separator, whether or not the staging path was given with a trailing
\* separator.
C12_ArchiveRoundTrip ==
    pc = "output" =>
        /\ DOMAIN ExtractAll(archive) = {Components(p) : p \in DOMAIN staging}
        /\ \A p \in DOMAIN staging :
              /\ ExtractAll(archive)[Components(p)] = staging[p]
              /\ Cardinality(EntriesAt(archive, Components(p))) = 1
        /\ BagCardinality(archive) = Cardinality(DOMAIN staging)
        /\ \A e \in BagToSet(archive) :
              /\ ~IsDirEntry(e)
              /\ e.filename # <<>>
              /\ Head(e.filename) # Sep

\* An archive was written from a path with a trailing separator, of a tree
\* that holds files at its root and two directories down.
C12_Witness ==
    /\ pc = "output"
    /\ tempPath[Len(tempPath)] = Sep
    /\ \E p \in DOMAIN staging : Len(p.dir) = 2
    /\ \E p \in DOMAIN staging : p.dir = <<>> /\ p # ShimPath

\* C13: a call that ended with an error has written nothing to the
\* destination, whose file changes in no step but the one that ends a call
\* successfully; and when a call has ended, with an error or without, its
\* temporary directory and all it held are gone.
C13_AbortWritesNothing ==
    /\ [](pc = "failed" => ~wrote)
    /\ [][dest' # dest => (pc = "output" /\ pc' = "done" /\ wrote')]_vars
    /\ [](pc \in {"done", "failed"} =>
            /\ tempPath = NoPath
            /\ staging = EmptyTree
            /\ archive = NoArchive)

\* The second call built its archive and then failed on the destination's
\* scheme; the file the first call wrote is as it was.
C13_Witness ==
    /\ pc = "failed"
    /\ runs = 2
    /\ StartsWithS3(error.name)
    /\ acquired # {}
    /\ dest.written
    /\ ~wrote

\* compile_files has been reached in the current call.
Compiling == pc \in {"compile", "prune", "shim", "zip", "output"}

\* C14: compile_files starts only when the loop of install_dependencies is
\* over, every dependency but the root having been handed to the strategies
\* and the root having been unpacked last; each later phase starts from the
\* one before it (compile, prune, shim, archive, output); and from the
\* moment create_zip_bundle starts no file is added to the staging tree.
C14_PhasesInOrder ==
    /\ [](Compiling =>
            /\ depIdx > Len(dependencies)
            /\ Range(dependencies) \ {root} \subseteq acquired
            /\ unpacked # <<>>
            /\ unpacked[Len(unpacked)] = root)
    /\ [][(pc' # pc /\ pc' = "compile") => pc = "deps"]_vars
    /\ [][(pc' # pc /\ pc' = "prune") => pc = "compile"]_vars
    /\ [][(pc' # pc /\ pc' = "shim") => pc = "prune"]_vars
    /\ [][(pc' # pc /\ pc' = "zip") => pc = "shim"]_vars
    /\ [][(pc' # pc /\ pc' = "output") => pc = "zip"]_vars
    /\ [][(pc = "zip" \/ pc = "output") =>
            (DOMAIN staging') \subseteq (DOMAIN staging)]_vars

\* The archive of a project with two dependencies has been written.
C14_Witness ==
    /\ pc = "output"
    /\ Cardinality(acquired) = 2
    /\ BagCardinality(archive) > 1

\* Both concurrent runs have left the download strategy.
RaceOver == \A r \in Runners : step[r] \in {"done", "failed"}

\* C15: when two runs download the same dependency at once, both end the
\* strategy with the wheel's members extracted into their own staging
\* trees, and the cache file then holds the whole artifact.
C15_RaceTolerated ==
    RaceOver =>
        /\ \A r \in Runners :
              /\ outcome[r] = "installed"
              /\ \A p \in DOMAIN WheelMembers(Contested) :
                    p \in DOMAIN ownTree[r]
        /\ wheel.chunks = Artifact

\* install_local_package was called for cur, which is installed in a
\* directory.
UnpackedFromDirectory ==
    /\ Len(log) = 5
    /\ unpacked # <<>>
    /\ unpacked[Len(unpacked)] = cur
    /\ layout.kind = "dir"

\* The source of ownership the claim gives a directory: the embedded egg
\* file, or the first of the three folders that holds a manifest.
ClaimedSource(n, location) ==
    LET tries == <<KeyEggInfo(n), EmbeddedEggInfo(n), DistInfo(n)>>
        hits == {i \in 1..Len(tries) : tries[i] \in location.manifests}
    IN IF location.eggZip THEN "bundle"
       ELSE IF hits = {} THEN "None"
       ELSE tries[CHOOSE i \in hits : \A j \in hits : i <= j]

\* The top-level names under which files of n's install location, or
\* under which members of n's egg, lie in the staging tree.
StagedNames(n, origin) ==
    {Components(p)[1] :
        p \in {q \in DOMAIN staging : staging[q] = origin \o n}}

\* C16: for a distribution installed in a directory, install_local_package
\* takes the top-level names from the embedded egg file if there is one
\* (and extracts that egg's members), else from the first manifest there is
\* among {key}.egg-info, {egg_name}.egg/EGG-INFO and
\* {key}-{version}.dist-info, and stages exactly the names listed there;
\* with none of these it raises the missing-manifest error and copies
\* nothing.
C16_OwnershipPriority ==
    UnpackedFromDirectory =>
        LET source == ClaimedSource(cur, layout) IN
        CASE source = "bundle" ->
                /\ log[5].result = "installed"
                /\ StagedNames(cur, "egg:") =
                       Range(ReadTopLevel(TopLevelLines(cur)))
          [] source = "None" ->
                /\ log[5].result = "OwnershipManifestMissing"
                /\ error = [kind |-> "OwnershipManifestMissing", name |-> cur]
                /\ InstallLocalPackage(EmptyTree, cur, layout).tree = EmptyTree
          [] OTHER ->
                log[5].result = "installed" =>
                    StagedNames(cur, "local:") =
                        Range(ReadTopLevel(ManifestLines(cur, source)))

\* The files of n's install location that belong to a top-level name: the
\* files below the directory of that name, or the module name + ".py".
FilesUnder(n, name) ==
    {p \in DOMAIN LocalDirFiles(n) :
        \/ StartsWithFolder(p, name)
        \/ p = File(<<>>, name, ".py")}

\* The same in the staging tree.
StagedUnder(n, name) ==
    {p \in DOMAIN staging :
        /\ staging[p] = "local:" \o n
        /\ StartsWithFolder(p, name) \/ p = File(<<>>, name, ".py")}

\* C17: install_local_package on a directory with a top_level.txt
\* succeeds, whichever names the file lists and whatever the staging tree
\* holds already, and then the staging tree holds under each listed name
\* exactly the files of the install location under that name that no
\* component of IGNORED excludes, with their contents.
C17_DirectoryCopySucceeds ==
    ( /\ UnpackedFromDirectory
      /\ ~layout.eggZip
      /\ LocateTopLevel(cur, layout) # "None" ) =>
        /\ log[5].result = "installed"
        /\ \A name \in Range(ReadTopLevel(ManifestLines(
                             cur, LocateTopLevel(cur, layout)))) :
              StagedUnder(cur, name) =
                  {p \in FilesUnder(cur, name) : ~CopytreeSkips(p)}

\* The entries of an archive that are named as the shim is.
ShimEntries(entries) ==
    {e \in BagToSet(entries) :
        NameComponents(e.filename) = Components(ShimPath)}

\* C18: once insert_shim has run, index.py at the root of the staging tree
\* holds the entry text, whatever a dependency or the project staged at
\* that path, and so does the one entry of that name in the archive and in
\* the file written to the destination; the staging tree holds no bytecode
\* made from it, neither beside it nor in the root's __pycache__.
C18_ShimHoldsEntryText ==
    /\ pc \in {"zip", "output"} =>
          /\ ShimPath \in DOMAIN staging
          /\ staging[ShimPath] = EntryText
          /\ PlusC(ShimPath) \in DOMAIN staging =>
                staging[PlusC(ShimPath)] # "bytecode"
          /\ CacheFromSource(ShimPath) \notin DOMAIN staging
    /\ pc = "output" =>
          /\ Cardinality(ShimEntries(archive)) = 1
          /\ \A e \in ShimEntries(archive) :
                e.data = EntryText /\ archive[e] = 1
    /\ wrote =>
          /\ Cardinality(ShimEntries(dest.entries)) = 1
          /\ \A e \in ShimEntries(dest.entries) :
                e.data = EntryText /\ dest.entries[e] = 1

\* The archive was written of a tree in which a dependency's wheel had put
\* a file at the shim's path.
C18_Witness ==
    /\ pc = "output"
    /\ ShimPath \in DOMAIN preprune
    /\ preprune[ShimPath] = "wheel:libb"
    /\ staging[ShimPath] = EntryText

\* C19: a file of the private cache holds a whole artifact: a download
\* that fails leaves none under the wheel's name, and strategy 2 is never
\* handed a file that is no zip archive.
C19_CacheHoldsWholeArtifacts ==
    /\ \A n \in Names : fakeCache[n] \in {"absent", "complete"}
    /\ Len(log) >= 2 => log[2].result # "BadZipFile"

\* Strategy 2 is about to run for a dependency whose wheel an earlier
\* download has put whole into the private cache.
CachedByDownload == pc = "s2" /\ fakeDir /\ fakeCache[cur] = "complete"

\* C20: once strategy 3 has downloaded a dependency's wheel, strategy 2,
\* when it is reached for that dependency again, installs the wheel's
\* members and ends the chain, and the registry is not asked; the registry
\* is asked about no dependency whose wheel the private cache holds whole.
C20_DownloadedWheelIsReused ==
    /\ [][CachedByDownload =>
            /\ pc' = "deps"
            /\ log' = Append(log, [strategy |-> 2, result |-> "installed"])
            /\ requested' = requested
            /\ \A p \in DOMAIN WheelMembers(cur) :
                  p \in DOMAIN staging' /\ staging'[p] = WheelMembers(cur)[p]
          ]_vars
    /\ [][(cur \in requested' /\ cur \notin requested) =>
            fakeCache[cur] # "complete"]_vars

\* In a second call strategy 2 has installed a dependency whose wheel the
\* private cache holds from a download of the first call.
C20_Witness ==
    /\ runs = 2
    /\ pc = "deps"
    /\ Len(log) = 2
    /\ log[2].result = "installed"
    /\ fakeCache[cur] = "complete"
    /\ requested = {}

====
